---- MODULE Spec2Model ----
(***************************************************************************)
(* The session lifecycle scheduler of the number-guessing game             *)
(* (GameService.manageGameSession / endGameSession) and the settlement of  *)
(* an ended session (GameService.getGameResult / updatePlayerStats and     *)
(* GameGateway.getGameResult / updatePlayerStats), over the store's three  *)
(* tables GameSession, Player and User.                                    *)
(*                                                                         *)
(* Every `await` on the store is an interleaving point: a handler is a     *)
(* process with a program counter, and one action is one store statement   *)
(* together with the synchronous code that runs when it resolves.          *)
(* Time is Date.now() in seconds (the code's milliseconds divided by the   *)
(* factor 1000 it multiplies its second-valued constants with).            *)
(***************************************************************************)
EXTENDS Integers, Sequences, FiniteSets, Bags, TLC

VARIABLES
    now,        \* the wall clock, Date.now() / new Date()
    sessions,   \* table GameSession, in order of creation; the id is the index
    isRunning,  \* GameService.isRunning
    destroyed,  \* onModuleDestroy has run (the application is closing)
    lateTicks,  \* how many ticks the cron has fired since onModuleDestroy
    faults,     \* how many store statements have been rejected
    ticks,      \* the executions of manageGameSession, one per slot
    timers,     \* the pending setTimeout callbacks of manageGameSession, a bag
    emitted,    \* per session: how many sessionUpdate events of each kind were sent
    players,    \* table Player: the rows of each user, in order of creation
    users,      \* table User: wins and losses of each user
    calls,      \* the HTTP and WebSocket requests in flight, a bag
    queries,    \* how many result queries have been received
    joined,     \* the playerJoined events sent, a bag of session ids
    reply       \* the last answer sent to a request (response, error or event)

vars == <<now, sessions, isRunning, destroyed, lateTicks, faults, ticks, timers, emitted, players, users, calls, queries, joined, reply>>

----------------------------------------------------------------------------
(* Bounds of the model *)

MaxTime == 50
ClockStep == 5
MaxSessions == 2
MaxLateTicks == 1
MaxCalls == 2
MaxQueries == 2
MaxFaults == 1

----------------------------------------------------------------------------
(* Program constants *)

sessionDuration == 30
cooldownPeriod == 10

(* The registered users *)
Users == {"ann", "bob"}

(* selectedNumber of a player who has joined and not guessed *)
Unanswered == -1

(* The numbers the requests submit: a valid one, and the nearest invalid one
   on either side of [1, 10]. *)
GuessInputs == {0, 1, 11}

(* The same with the other end of [1, 10], so that two guesses can differ. *)
PlayInputs == GuessInputs \cup {10}

(* A nullable column holds <<>> (NULL) or <<v>>. *)
Null == <<>>
Some(v) == <<v>>

Max(a, b) == IF a >= b THEN a ELSE b

(* Math.floor(Math.random() * 10): Math.random() is in [0, 1), so the floor
   is in 0..9; the draws taken are the two ends of that range. *)
RandomDeciles == {0, 9}

drawNumberFromZero(k) == k

(* Math.floor(Math.random() * 10) + 1 *)
drawNumber(k) == k + 1

SessionIds == 1..Len(sessions)

(* prisma.gameSession.create({ data: { isActive: true, startedAt: new Date(),
   duration: this.sessionDuration, ... } }): winningNumber and endedAt are NULL *)
NewSession(t) ==
    [isActive |-> TRUE, startedAt |-> t, duration |-> sessionDuration,
     endedAt |-> Null, winningNumber |-> Null]

EndedSessionStillActive(s, w, t) ==
    [s EXCEPT !.winningNumber = Some(w), !.endedAt = Some(t)]

(* prisma.gameSession.update({ where: { id }, data: { isActive: false,
   winningNumber, endedAt: new Date() } }): one statement, no condition on
   the row's current isActive *)
EndedSession(s, w, t) ==
    [s EXCEPT !.isActive = FALSE, !.winningNumber = Some(w), !.endedAt = Some(t)]

ActiveIds == {i \in SessionIds : sessions[i].isActive}

(* findFirst({ where: { isActive: true }, orderBy: { startedAt: 'desc' } }):
   the rows the store may return; the empty set when there is none *)
ActiveFirst ==
    {i \in ActiveIds :
        \A j \in ActiveIds : sessions[j].startedAt <= sessions[i].startedAt}

InactiveIds == {i \in SessionIds : ~sessions[i].isActive}

(* findFirst({ where: { isActive: false }, orderBy: { endedAt: 'desc' } }):
   descending order puts NULL first, then the latest endedAt *)
LastEnded ==
    IF \E i \in InactiveIds : sessions[i].endedAt = Null
    THEN {i \in InactiveIds : sessions[i].endedAt = Null}
    ELSE {i \in InactiveIds :
            \A j \in InactiveIds : sessions[j].endedAt[1] <= sessions[i].endedAt[1]}

(* The row of a findFirst: one of the candidates, or 0 for null. *)
FoundIn(S) == IF S = {} THEN {0} ELSE S

cooldownRemainingNeverElapses(l, t) ==
    IF l # 0 /\ sessions[l].endedAt # Null THEN cooldownPeriod ELSE 0

(* cooldownRemaining of manageGameSession, for lastSession = l (0: none) at time t *)
cooldownRemaining(l, t) ==
    IF l # 0 /\ sessions[l].endedAt # Null
    THEN Max(cooldownPeriod - (t - sessions[l].endedAt[1]), 0)
    ELSE 0

sessionEndTimeWithoutDuration(s) == s.startedAt

(* sessionEndTime = startedAt + duration *)
sessionEndTime(s) == s.startedAt + s.duration

(* The statistics of a result: totalPlayers, totalWins and the users of the
   winners list; the initial resultPayload of the gateway has 0, 0 and []. *)
NoPayload == [totalPlayers |-> 0, totalWins |-> 0, winners |-> {}]

(* An answer: the handler, what it answered, the session asked for. *)
Reply(op, status, sid, payload) ==
    [op |-> op, status |-> status, sid |-> sid, payload |-> payload]

NoReply == Reply("none", "none", 0, NoPayload)

----------------------------------------------------------------------------
(* The scheduler *)

(* Executions of manageGameSession that can overlap: the flag admits one, and
   onModuleDestroy, which runs once, releases it for one more. *)
TickSlots == {1, 2}

IdleTick == [pc |-> "idle", sid |-> 0, w |-> 0, e |-> 0]

Init ==
    /\ now = 0
    /\ sessions = <<>>
    /\ isRunning = FALSE
    /\ destroyed = FALSE
    /\ lateTicks = 0
    /\ faults = 0
    /\ ticks = [i \in TickSlots |-> IdleTick]
    /\ timers = EmptyBag
    /\ emitted = <<>>
    /\ players = [u \in Users |-> <<>>]
    /\ users = [u \in Users |-> [wins |-> 0, losses |-> 0]]
    /\ calls = EmptyBag
    /\ queries = 0
    /\ joined = EmptyBag
    /\ reply = NoReply

GameUnchanged == UNCHANGED <<players, users, calls, queries, joined, reply>>

(* The clock advances. *)
Advance ==
    /\ now + ClockStep <= MaxTime
    /\ now' = now + ClockStep
    /\ UNCHANGED <<sessions, isRunning, destroyed, lateTicks, faults, ticks, timers, emitted>>
    /\ GameUnchanged

(* onModuleDestroy() { this.isRunning = false }: the hook runs once, when the
   application closes; the cron job is stopped later in the shutdown. *)
OnModuleDestroy ==
    /\ ~destroyed
    /\ destroyed' = TRUE
    /\ isRunning' = FALSE
    /\ UNCHANGED <<now, sessions, lateTicks, faults, ticks, timers, emitted>>
    /\ GameUnchanged

(* @Cron fires manageGameSession: if (this.isRunning) return;
   this.isRunning = true; then the first findFirst is issued. *)
TickStart(i) ==
    /\ ticks[i].pc = "idle"
    /\ \A j \in TickSlots : j < i => ticks[j].pc # "idle"
    /\ ~isRunning
    /\ destroyed => lateTicks < MaxLateTicks
    /\ lateTicks' = IF destroyed THEN lateTicks + 1 ELSE lateTicks
    /\ isRunning' = TRUE
    /\ ticks' = [ticks EXCEPT ![i].pc = "findActive"]
    /\ UNCHANGED <<now, sessions, destroyed, faults, timers, emitted>>
    /\ GameUnchanged

(* activeSession resolves. Past its end time: endGameSession draws the
   number and issues the update; before it: isRunning = false; return;
   none: the lastSession query is issued. *)
TickFindActive(i) ==
    /\ ticks[i].pc = "findActive"
    /\ \E a \in FoundIn(ActiveFirst) :
         IF a = 0
         THEN /\ ticks' = [ticks EXCEPT ![i].pc = "findLast"]
              /\ UNCHANGED isRunning
         ELSE IF now >= sessionEndTime(sessions[a])
         THEN /\ \E k \in RandomDeciles :
                   ticks' = [ticks EXCEPT ![i] =
                       [pc |-> "ending", sid |-> a, w |-> drawNumber(k), e |-> now]]
              /\ UNCHANGED isRunning
         ELSE /\ ticks' = [ticks EXCEPT ![i] = IdleTick]
              /\ isRunning' = FALSE
    /\ UNCHANGED <<now, sessions, destroyed, lateTicks, faults, timers, emitted>>
    /\ GameUnchanged

(* notifySessionUpdate({ session: null, ..., nextSessionIn: cooldownPeriod }) *)
EmitEnded(em, sid) == [em EXCEPT ![sid].ended = @ + 1]

(* notifySessionUpdate({ session: newSession, timeLeftInSeconds: sessionDuration }) *)
EmitStarted(em, sid) == [em EXCEPT ![sid].started = @ + 1]

(* endGameSession called by the tick: its update is applied by the store and
   the 'session ended' event is sent; the lastSession query is issued. *)
TickEndSession(i) ==
    /\ ticks[i].pc = "ending"
    /\ sessions' = [sessions EXCEPT ![ticks[i].sid] =
                        EndedSession(@, ticks[i].w, ticks[i].e)]
    /\ emitted' = EmitEnded(emitted, ticks[i].sid)
    /\ ticks' = [ticks EXCEPT ![i] = [IdleTick EXCEPT !.pc = "findLast"]]
    /\ UNCHANGED <<now, isRunning, destroyed, lateTicks, faults, timers>>
    /\ GameUnchanged

TickFindLastNotifying(i) ==
    /\ ticks[i].pc = "findLast"
    /\ \E l \in FoundIn(LastEnded) :
         IF cooldownRemaining(l, now) > 0
         THEN /\ ticks' = [ticks EXCEPT ![i] = IdleTick]
              /\ isRunning' = FALSE
              /\ emitted' = EmitEnded(emitted, l)
         ELSE /\ ticks' = [ticks EXCEPT ![i].pc = "doubleCheck"]
              /\ UNCHANGED <<isRunning, emitted>>
    /\ UNCHANGED <<now, sessions, destroyed, lateTicks, faults, timers>>
    /\ GameUnchanged

(* lastSession resolves: in cooldown, isRunning = false; return; otherwise
   the transaction that opens a session begins. *)
TickFindLast(i) ==
    /\ ticks[i].pc = "findLast"
    /\ \E l \in FoundIn(LastEnded) :
         IF cooldownRemaining(l, now) > 0
         THEN /\ ticks' = [ticks EXCEPT ![i] = IdleTick]
              /\ isRunning' = FALSE
         ELSE /\ ticks' = [ticks EXCEPT ![i].pc = "doubleCheck"]
              /\ UNCHANGED isRunning
    /\ UNCHANGED <<now, sessions, destroyed, lateTicks, faults, timers, emitted>>
    /\ GameUnchanged

(* After the transaction: the 'session started' event, the deferred
   endGameSession(newSession.id), and finally { this.isRunning = false }. *)
Started(i, sid) ==
    /\ emitted' = EmitStarted(IF sid > Len(emitted)
                              THEN Append(emitted, [started |-> 0, ended |-> 0])
                              ELSE emitted, sid)
    /\ timers' = timers (+) SetToBag({[sid |-> sid, fireAt |-> now + sessionDuration]})
    /\ ticks' = [ticks EXCEPT ![i] = IdleTick]
    /\ isRunning' = FALSE

(* Inside the transaction: doubleCheck = findFirst({ where: { isActive: true } }).
   A row found is returned as newSession; none: the create is issued. The
   transaction runs at the store's default isolation (read committed), so the
   read and the insert are two statements other writers interleave with. *)
TickDoubleCheck(i) ==
    /\ ticks[i].pc = "doubleCheck"
    /\ \E a \in FoundIn(ActiveIds) :
         IF a # 0
         THEN /\ Started(i, a)
              /\ UNCHANGED sessions
         ELSE /\ ticks' = [ticks EXCEPT ![i].pc = "create"]
              /\ UNCHANGED <<sessions, timers, emitted, isRunning>>
    /\ UNCHANGED <<now, destroyed, lateTicks, faults>>
    /\ GameUnchanged

(* The create of the transaction, its commit, and what follows it. *)
TickCreate(i) ==
    /\ ticks[i].pc = "create"
    /\ Len(sessions) < MaxSessions
    /\ sessions' = Append(sessions, NewSession(now))
    /\ Started(i, Len(sessions) + 1)
    /\ UNCHANGED <<now, destroyed, lateTicks, faults>>
    /\ GameUnchanged

(* The setTimeout callback: endGameSession(newSession.id), sessionDuration
   after it was scheduled. *)
TimerFire(t) ==
    /\ now >= t.fireAt
    /\ \E k \in RandomDeciles :
         sessions' = [sessions EXCEPT ![t.sid] = EndedSession(@, drawNumber(k), now)]
    /\ emitted' = EmitEnded(emitted, t.sid)
    /\ timers' = timers (-) SetToBag({t})
    /\ UNCHANGED <<now, isRunning, destroyed, lateTicks, faults, ticks>>
    /\ GameUnchanged

TickFailKeepingFlag(i) ==
    /\ ticks[i].pc \in {"findActive", "ending", "findLast", "doubleCheck", "create"}
    /\ faults < MaxFaults
    /\ faults' = faults + 1
    /\ ticks' = [ticks EXCEPT ![i] = IdleTick]
    /\ UNCHANGED <<now, sessions, isRunning, destroyed, lateTicks, timers, emitted>>
    /\ GameUnchanged

(* The store statement a tick is awaiting is rejected (the update of
   endGameSession is rethrown to manageGameSession): the statement, or the
   open transaction, is not applied; catch logs the error and finally
   { this.isRunning = false }. *)
TickFail(i) ==
    /\ ticks[i].pc \in {"findActive", "ending", "findLast", "doubleCheck", "create"}
    /\ faults < MaxFaults
    /\ faults' = faults + 1
    /\ ticks' = [ticks EXCEPT ![i] = IdleTick]
    /\ isRunning' = FALSE
    /\ UNCHANGED <<now, sessions, destroyed, lateTicks, timers, emitted>>
    /\ GameUnchanged

Tick(i) ==
    \/ TickStart(i)
    \/ TickFindActive(i)
    \/ TickEndSession(i)
    \/ TickFindLast(i)
    \/ TickDoubleCheck(i)
    \/ TickCreate(i)

Next ==
    \/ Advance
    \/ OnModuleDestroy
    \/ \E i \in TickSlots : Tick(i)
    \/ \E t \in BagToSet(timers) : TimerFire(t)

Spec == Init /\ [][Next]_vars


(* The application stays up: the cron keeps firing, the store answers every
   statement, timers fire and time passes. *)
LiveNext ==
    \/ Advance
    \/ \E i \in TickSlots : Tick(i)
    \/ \E t \in BagToSet(timers) : TimerFire(t)

LiveSpec ==
    /\ Init
    /\ [][LiveNext]_vars
    /\ \A i \in TickSlots : WF_vars(Tick(i))
    /\ WF_vars(Advance)
    /\ WF_vars(\E t \in BagToSet(timers) : TimerFire(t))

(* The same, with a store that rejects some statements of the ticks. *)
FaultNext ==
    \/ LiveNext
    \/ \E i \in TickSlots : TickFail(i)

FaultSpec ==
    /\ Init
    /\ [][FaultNext]_vars
    /\ \A i \in TickSlots : WF_vars(Tick(i))
    /\ WF_vars(Advance)
    /\ WF_vars(\E t \in BagToSet(timers) : TimerFire(t))

----------------------------------------------------------------------------
(* The game: joining, guessing, and the two result queries *)

IdleCall ==
    [op |-> "idle", pc |-> "idle", user |-> "", sid |-> 0, n |-> 0, w |-> 0,
     pid |-> 0, winners |-> {}, losers |-> {}, payload |-> NoPayload]

(* The player rows, by id: the user and the rank among that user's rows. *)
PlayerIds == {id \in Users \X (1..MaxCalls + 1) : id[2] <= Len(players[id[1]])}

Row(id) == players[id[1]][id[2]]

(* prisma.player.create({ data: { userId, gameId, selectedNumber: -1 } }) *)
NewPlayer(g) == [gameId |-> g, selectedNumber |-> Unanswered, isWinner |-> Null]

(* player rows where { userId, gameId } *)
PlayersOf(u, g) == {id \in PlayerIds : id[1] = u /\ Row(id).gameId = g}

invalidNumberAboveTenOnly(n) == n > 10

(* if (selectedNumber < 1 || selectedNumber > 10) throw *)
invalidNumber(n) == n < 1 \/ n > 10

notEndedOnlyIfZero(s) == s.winningNumber # Null /\ s.winningNumber[1] = 0

(* if (!session.winningNumber): NULL and 0 are both falsy *)
notEnded(s) == s.winningNumber = Null \/ s.winningNumber[1] = 0

(* const { winningNumber } = session, as a number: 0 stands for null *)
winningNumberOf(s) == IF s.winningNumber = Null THEN 0 ELSE s.winningNumber[1]

(* The session ids the requests name: those of the table and one that no
   session has. *)
RequestIds == 1..(Len(sessions) + 1)

(* gameSession.findFirst({ where: { id } }) finds a row *)
sessionExists(g) == g \in SessionIds

sessionActiveOrEnded(g) == g \in SessionIds

(* gameSession.findFirst({ where: { id, isActive: true } }) finds a row *)
sessionActive(g) == g \in SessionIds /\ sessions[g].isActive

(* player rows where { gameId } *)
PlayersIn(g) == {id \in PlayerIds : Row(id).gameId = g}

ResultPayloadOfAllSessions(g, w) ==
    [totalPlayers |-> Cardinality(PlayerIds),
     totalWins |-> Cardinality({id \in PlayerIds : Row(id).selectedNumber = w}),
     winners |-> {id[1] : id \in {q \in PlayerIds : Row(q).selectedNumber = w}}]

(* The statistics getGameResult reads for session g and number w:
   player.count({ gameId }), player.count({ gameId, selectedNumber: w }),
   player.findMany({ gameId, selectedNumber: w }) *)
ResultPayload(g, w) ==
    [totalPlayers |-> Cardinality(PlayersIn(g)),
     totalWins |-> Cardinality({id \in PlayersIn(g) : Row(id).selectedNumber = w}),
     winners |-> {id[1] : id \in {q \in PlayersIn(g) : Row(q).selectedNumber = w}}]

(* The BadRequestException of joinGameSession(u, g), if it throws one *)
joinRefusal(u, g) ==
    IF ~sessionActive(g) THEN {"notActive"}
    ELSE {IF Row(id).selectedNumber # Unanswered THEN "alreadyPlayed" ELSE "alreadyJoined" :
            id \in PlayersOf(u, g)}

(* The BadRequestException of submitNumber(u, g, n), if it throws one *)
submitRefusal(u, g, n) ==
    IF invalidNumber(n) THEN {"invalidNumber"}
    ELSE IF ~sessionExists(g) THEN {"notActive"}
    ELSE IF PlayersOf(u, g) = {} THEN {"notJoined"}
    ELSE {"alreadySelected" : id \in {q \in PlayersOf(u, g) : Row(q).selectedNumber # Unanswered}}

(* What a result query for g answers when it settles nothing: the service
   throws NotFoundException or BadRequestException; the gateway returns its
   initial resultPayload (winningNumber -1) and handleGetGameResult sends no
   event. *)
resultRefusal(g, op) ==
    IF ~sessionExists(g) THEN {IF op = "http" THEN "notFound" ELSE "noResult"}
    ELSE IF notEnded(sessions[g]) THEN {IF op = "http" THEN "notFinished" ELSE "noResult"}
    ELSE {}

(* player.updateMany({ where: { gameId, selectedNumber: winningNumber },
   data: { isWinner: true } }) *)
MarkWinners(ps, g, w) ==
    [u \in DOMAIN ps |-> [k \in DOMAIN ps[u] |->
        IF ps[u][k].gameId = g /\ ps[u][k].selectedNumber = w
        THEN [ps[u][k] EXCEPT !.isWinner = Some(TRUE)] ELSE ps[u][k]]]

MarkLosersAnsweredOnly(ps, g, w) ==
    [u \in DOMAIN ps |-> [k \in DOMAIN ps[u] |->
        IF ps[u][k].gameId = g /\ ps[u][k].selectedNumber \notin {w, Unanswered}
        THEN [ps[u][k] EXCEPT !.isWinner = Some(FALSE)] ELSE ps[u][k]]]

(* player.updateMany({ where: { gameId, selectedNumber: { not: winningNumber } },
   data: { isWinner: false } }) *)
MarkLosers(ps, g, w) ==
    [u \in DOMAIN ps |-> [k \in DOMAIN ps[u] |->
        IF ps[u][k].gameId = g /\ ps[u][k].selectedNumber # w
        THEN [ps[u][k] EXCEPT !.isWinner = Some(FALSE)] ELSE ps[u][k]]]

(* GameService.getWinners / getLosers: the userIds of the rows where
   { gameId, isWinner: flag } *)
UsersFlagged(g, flag) ==
    {id[1] : id \in {q \in PlayerIds :
        Row(q).gameId = g /\ Row(q).isWinner = Some(flag)}}

(* GameGateway.updatePlayerStats: the userIds of the rows where
   { gameId, selectedNumber: winningNumber } *)
UsersSelecting(g, w) ==
    {id[1] : id \in {q \in PlayerIds :
        Row(q).gameId = g /\ Row(q).selectedNumber = w}}

(* ... and where { gameId, selectedNumber: { not: winningNumber } } *)
UsersNotSelecting(g, w) ==
    {id[1] : id \in {q \in PlayerIds :
        Row(q).gameId = g /\ Row(q).selectedNumber # w}}

IncrementStatsOfWinnersOnly(us, winners, losers) ==
    [u \in DOMAIN us |->
        [wins |-> us[u].wins + (IF u \in winners THEN 1 ELSE 0), losses |-> us[u].losses]]

(* $transaction([ user.updateMany({ where: { id: { in: winners } },
   data: { wins: { increment: 1 } } }), user.updateMany({ where: { id: { in:
   losers } }, data: { losses: { increment: 1 } } }) ]) *)
IncrementStats(us, winners, losers) ==
    [u \in DOMAIN us |->
        [wins |-> us[u].wins + (IF u \in winners THEN 1 ELSE 0),
         losses |-> us[u].losses + (IF u \in losers THEN 1 ELSE 0)]]

(* hasUpdatedStats: findFirst({ where: { gameId, OR: [{ isWinner: true },
   { isWinner: false }] } }) finds a row *)
hasUpdatedStats(g) ==
    \E id \in PlayerIds : Row(id).gameId = g /\ Row(id).isWinner # Null

(* A session at its end time, opened by a tick sessionDuration ago, with its
   deferred end pending; the users are registered and nobody has joined. *)
GameInit ==
    /\ now = sessionDuration
    /\ sessions = <<NewSession(0)>>
    /\ isRunning = FALSE
    /\ destroyed = FALSE
    /\ lateTicks = 0
    /\ faults = 0
    /\ ticks = [i \in TickSlots |-> IdleTick]
    /\ timers = SetToBag({[sid |-> 1, fireAt |-> sessionDuration]})
    /\ emitted = <<[started |-> 1, ended |-> 0]>>
    /\ players = [u \in Users |-> <<>>]
    /\ users = [u \in Users |-> [wins |-> 0, losses |-> 0]]
    /\ calls = EmptyBag
    /\ queries = 0
    /\ joined = EmptyBag
    /\ reply = NoReply

SchedulerUnchanged ==
    UNCHANGED <<now, sessions, isRunning, destroyed, lateTicks, faults, ticks, timers, emitted>>

(* The server takes another request. *)
Accepts == BagCardinality(calls) < MaxCalls

Begin(c) == calls' = calls (+) SetToBag({c})

Finish(c) == calls' = calls (-) SetToBag({c})

Continue(c, d) == calls' = (calls (-) SetToBag({c})) (+) SetToBag({d})

Goto(c, pc) == Continue(c, [c EXCEPT !.pc = pc])

At(c, op, pc) == c.op = op /\ c.pc = pc

(* joinGameSession(u, g): the session is found active and the user has no
   player row in it (otherwise BadRequestException, and nothing changes); the
   create is issued. *)
JoinRequest(u, g) ==
    /\ Accepts
    /\ sessionActive(g)
    /\ PlayersOf(u, g) = {}
    /\ Begin([IdleCall EXCEPT !.op = "join", !.pc = "create", !.user = u, !.sid = g])
    /\ UNCHANGED <<players, users, queries, joined, reply>>
    /\ SchedulerUnchanged

(* joinGameSession(u, g) throws: nothing is written. *)
JoinRefused(u, g) ==
    /\ \E st \in joinRefusal(u, g) : reply' = Reply("join", st, g, NoPayload)
    /\ UNCHANGED <<players, users, calls, queries, joined>>
    /\ SchedulerUnchanged

(* The player row is created; count and notifyPlayerJoined follow. *)
JoinCreate(c) ==
    /\ At(c, "join", "create")
    /\ players' = [players EXCEPT ![c.user] = Append(@, NewPlayer(c.sid))]
    /\ joined' = joined (+) SetToBag({c.sid})
    /\ reply' = Reply("join", "joined", c.sid, NoPayload)
    /\ Finish(c)
    /\ UNCHANGED <<users, queries>>
    /\ SchedulerUnchanged

(* submitNumber(u, g, n): the number is valid, the session exists, the row
   found for the user still holds -1 (otherwise BadRequestException, and
   nothing changes); the update of that row is issued. *)
SubmitRequest(u, g, n) ==
    /\ Accepts
    /\ ~invalidNumber(n)
    /\ sessionExists(g)
    /\ \E id \in PlayersOf(u, g) :
         /\ Row(id).selectedNumber = Unanswered
         /\ Begin([IdleCall EXCEPT !.op = "submit", !.pc = "update", !.user = u,
                                   !.sid = g, !.n = n, !.pid = id[2]])
    /\ UNCHANGED <<players, users, queries, joined, reply>>
    /\ SchedulerUnchanged

(* submitNumber(u, g, n) throws: nothing is written. *)
SubmitRefused(u, g, n) ==
    /\ \E st \in submitRefusal(u, g, n) : reply' = Reply("submit", st, g, NoPayload)
    /\ UNCHANGED <<players, users, calls, queries, joined>>
    /\ SchedulerUnchanged

(* player.update({ where: { id: player.id }, data: { selectedNumber } }) *)
SubmitUpdate(c) ==
    /\ At(c, "submit", "update")
    /\ players' = [players EXCEPT ![c.user][c.pid].selectedNumber = c.n]
    /\ reply' = Reply("submit", "submitted", c.sid, NoPayload)
    /\ Finish(c)
    /\ UNCHANGED <<users, queries, joined>>
    /\ SchedulerUnchanged

(* A result query arrives for session g and reads it: an ended session's
   winningNumber is kept and the statistics are read (a session that has not
   ended is refused, and nothing changes). *)
ResultRequest(g, op, pc) ==
    /\ Accepts
    /\ queries < MaxQueries
    /\ sessionExists(g)
    /\ ~notEnded(sessions[g])
    /\ queries' = queries + 1
    /\ Begin([IdleCall EXCEPT !.op = op, !.pc = pc, !.sid = g,
                              !.w = winningNumberOf(sessions[g]),
                              !.payload = ResultPayload(g, winningNumberOf(sessions[g]))])
    /\ UNCHANGED <<players, users, joined, reply>>
    /\ SchedulerUnchanged

(* A result query for a session that does not exist or has not ended:
   nothing is written. *)
ResultRefused(g, op) ==
    /\ \E st \in resultRefusal(g, op) : reply' = Reply(op, st, g, NoPayload)
    /\ UNCHANGED <<players, users, calls, queries, joined>>
    /\ SchedulerUnchanged

(* The result is sent: the response of the service and its gameResult event,
   or the gameResult event of the gateway. *)
Answer(c) == reply' = Reply(c.op, "result", c.sid, c.payload)

(* GameService.getGameResult(g), the HTTP result query: it calls
   updatePlayerStats(g, winningNumber) every time. *)
HttpRequest(g) == ResultRequest(g, "http", "markWinners")

(* GameService.updatePlayerStats: update winners *)
HttpMarkWinners(c) ==
    /\ At(c, "http", "markWinners")
    /\ players' = MarkWinners(players, c.sid, c.w)
    /\ Goto(c, "markLosers")
    /\ UNCHANGED <<users, queries, joined, reply>>
    /\ SchedulerUnchanged

(* update losers *)
HttpMarkLosers(c) ==
    /\ At(c, "http", "markLosers")
    /\ players' = MarkLosers(players, c.sid, c.w)
    /\ Goto(c, "getWinners")
    /\ UNCHANGED <<users, queries, joined, reply>>
    /\ SchedulerUnchanged

(* await this.getWinners(gameSessionId) *)
HttpGetWinners(c) ==
    /\ At(c, "http", "getWinners")
    /\ Continue(c, [c EXCEPT !.pc = "getLosers", !.winners = UsersFlagged(c.sid, TRUE)])
    /\ UNCHANGED <<players, users, queries, joined, reply>>
    /\ SchedulerUnchanged

(* await this.getLosers(gameSessionId) *)
HttpGetLosers(c) ==
    /\ At(c, "http", "getLosers")
    /\ Continue(c, [c EXCEPT !.pc = "increment", !.losers = UsersFlagged(c.sid, FALSE)])
    /\ UNCHANGED <<players, users, queries, joined, reply>>
    /\ SchedulerUnchanged

(* The transaction of the two user.updateMany; then the result is sent. *)
HttpIncrement(c) ==
    /\ At(c, "http", "increment")
    /\ users' = IncrementStats(users, c.winners, c.losers)
    /\ Answer(c)
    /\ Finish(c)
    /\ UNCHANGED <<players, queries, joined>>
    /\ SchedulerUnchanged

(* GameGateway.getGameResult(g, u), the WebSocket result query *)
WsRequest(g) == ResultRequest(g, "ws", "hasUpdatedStats")

(* if (!hasUpdatedStats) await this.updatePlayerStats(gameId, winningNumber) *)
WsHasUpdatedStats(c) ==
    /\ At(c, "ws", "hasUpdatedStats")
    /\ IF hasUpdatedStats(c.sid)
       THEN Finish(c) /\ Answer(c)
       ELSE Goto(c, "findWinners") /\ UNCHANGED reply
    /\ UNCHANGED <<players, users, queries, joined>>
    /\ SchedulerUnchanged

(* GameGateway.updatePlayerStats: const winners = findMany(...) *)
WsFindWinners(c) ==
    /\ At(c, "ws", "findWinners")
    /\ Continue(c, [c EXCEPT !.pc = "findLosers", !.winners = UsersSelecting(c.sid, c.w)])
    /\ UNCHANGED <<players, users, queries, joined, reply>>
    /\ SchedulerUnchanged

(* const losers = findMany(...) *)
WsFindLosers(c) ==
    /\ At(c, "ws", "findLosers")
    /\ Continue(c, [c EXCEPT !.pc = "markWinners",
                             !.losers = UsersNotSelecting(c.sid, c.w)])
    /\ UNCHANGED <<players, users, queries, joined, reply>>
    /\ SchedulerUnchanged

WsMarkWinners(c) ==
    /\ At(c, "ws", "markWinners")
    /\ players' = MarkWinners(players, c.sid, c.w)
    /\ Goto(c, "markLosers")
    /\ UNCHANGED <<users, queries, joined, reply>>
    /\ SchedulerUnchanged

WsMarkLosers(c) ==
    /\ At(c, "ws", "markLosers")
    /\ players' = MarkLosers(players, c.sid, c.w)
    /\ Goto(c, "increment")
    /\ UNCHANGED <<users, queries, joined, reply>>
    /\ SchedulerUnchanged

WsIncrement(c) ==
    /\ At(c, "ws", "increment")
    /\ users' = IncrementStats(users, c.winners, c.losers)
    /\ Answer(c)
    /\ Finish(c)
    /\ UNCHANGED <<players, queries, joined>>
    /\ SchedulerUnchanged

(* The $transaction of the two user.updateMany is rejected, after both
   player.updateMany were applied: no user is updated, the error leaves
   updatePlayerStats and getGameResult, and no result is sent. *)
IncrementFails(c) ==
    /\ c.op \in {"http", "ws"}
    /\ c.pc = "increment"
    /\ faults < MaxFaults
    /\ faults' = faults + 1
    /\ reply' = Reply(c.op, "failed", c.sid, NoPayload)
    /\ Finish(c)
    /\ UNCHANGED <<players, users, queries, joined>>
    /\ UNCHANGED <<now, sessions, isRunning, destroyed, lateTicks, ticks, timers, emitted>>

InFlight == BagToSet(calls)

Requests ==
    \/ \E u \in Users, g \in RequestIds : JoinRequest(u, g)
    \/ \E u \in Users, g \in RequestIds, n \in GuessInputs : SubmitRequest(u, g, n)

RequestSteps(c) ==
    \/ JoinCreate(c)
    \/ SubmitUpdate(c)

HttpSteps(c) ==
    \/ HttpMarkWinners(c)
    \/ HttpMarkLosers(c)
    \/ HttpGetWinners(c)
    \/ HttpGetLosers(c)
    \/ HttpIncrement(c)

WsSteps(c) ==
    \/ WsHasUpdatedStats(c)
    \/ WsFindWinners(c)
    \/ WsFindLosers(c)
    \/ WsMarkWinners(c)
    \/ WsMarkLosers(c)
    \/ WsIncrement(c)

ResultQueryInFlight == \E c \in InFlight : c.op \in {"http", "ws"}

(* Requests of every kind, in any interleaving, around the end of the session.
   The requests that are refused write nothing; they are taken by JoinSpec,
   GuessSpec and SettleSpec. *)
GameNext ==
    \/ \E t \in BagToSet(timers) : TimerFire(t)
    \/ Requests
    \/ \E g \in RequestIds : HttpRequest(g) \/ WsRequest(g)
    \/ \E c \in InFlight : RequestSteps(c) \/ HttpSteps(c) \/ WsSteps(c)

GameSpec == GameInit /\ [][GameNext]_vars

(* The same, with the result queries one after the other: a result query is
   received only when no other is in flight. *)
SequentialNext ==
    \/ \E t \in BagToSet(timers) : TimerFire(t)
    \/ Requests
    \/ \E g \in RequestIds : ~ResultQueryInFlight /\ (HttpRequest(g) \/ WsRequest(g))
    \/ \E c \in InFlight : RequestSteps(c) \/ HttpSteps(c) \/ WsSteps(c)

SequentialSpec == GameInit /\ [][SequentialNext]_vars

(* The same, with WebSocket result queries only. *)
GatewayNext ==
    \/ \E t \in BagToSet(timers) : TimerFire(t)
    \/ Requests
    \/ \E g \in RequestIds : WsRequest(g)
    \/ \E c \in InFlight : RequestSteps(c) \/ WsSteps(c)

GatewaySpec == GameInit /\ [][GatewayNext]_vars

(* A second session at its end time, opened after the cooldown of a first
   one that a user joined and guessed in, and that has ended with that
   number and is not settled. *)
LobbyInit ==
    /\ now = 2 * sessionDuration + cooldownPeriod
    /\ sessions = <<EndedSession(NewSession(0), 10, sessionDuration),
                    NewSession(sessionDuration + cooldownPeriod)>>
    /\ isRunning = FALSE
    /\ destroyed = FALSE
    /\ lateTicks = 0
    /\ faults = 0
    /\ ticks = [i \in TickSlots |-> IdleTick]
    /\ timers = SetToBag({[sid |-> 2, fireAt |-> 2 * sessionDuration + cooldownPeriod]})
    /\ emitted = <<[started |-> 1, ended |-> 1], [started |-> 1, ended |-> 0]>>
    /\ players = [u \in Users |->
                    IF u = "bob" THEN <<[NewPlayer(1) EXCEPT !.selectedNumber = 10]>>
                    ELSE <<>>]
    /\ users = [u \in Users |-> [wins |-> 0, losses |-> 0]]
    /\ calls = EmptyBag
    /\ queries = 0
    /\ joined = SetToBag({1})
    /\ reply = Reply("submit", "submitted", 1, NoPayload)

(* The first result query, of either kind and for either session, once the
   joins and guesses have been answered; queries that settle nothing
   included. *)
SettleNext ==
    \/ \E t \in BagToSet(timers) : TimerFire(t)
    \/ queries = 0 /\ Requests
    \/ \E c \in InFlight : RequestSteps(c)
    \/ \E g \in RequestIds :
          queries = 0 /\ calls = EmptyBag /\ (HttpRequest(g) \/ WsRequest(g))
    \/ \E g \in RequestIds : ResultRefused(g, "http") \/ ResultRefused(g, "ws")
    \/ \E c \in InFlight : HttpSteps(c) \/ WsSteps(c)

SettleSpec == LobbyInit /\ [][SettleNext]_vars

(* Result queries of either kind, one at a time, with a store that rejects
   the statistics transaction of some of them; the caller of a query that
   failed sends it again. *)
RetryNext ==
    \/ \E t \in BagToSet(timers) : TimerFire(t)
    \/ \E g \in RequestIds :
          /\ calls = EmptyBag
          /\ queries = 0 \/ (reply.status = "failed" /\ reply.sid = g)
          /\ HttpRequest(g) \/ WsRequest(g)
    \/ \E c \in InFlight : HttpSteps(c) \/ WsSteps(c)
    \/ \E c \in InFlight : IncrementFails(c)

RetrySpec == LobbyInit /\ [][RetryNext]_vars

(* Joining around the end of the session, refused joins included. *)
JoinNext ==
    \/ \E t \in BagToSet(timers) : TimerFire(t)
    \/ \E u \in Users, g \in RequestIds : JoinRequest(u, g)
    \/ \E u \in Users, g \in RequestIds : JoinRefused(u, g)
    \/ \E c \in InFlight : JoinCreate(c)

JoinSpec == GameInit /\ [][JoinNext]_vars

(* The state of GameInit after one user has joined the session. *)
GuessInit ==
    /\ now = sessionDuration
    /\ sessions = <<NewSession(0)>>
    /\ isRunning = FALSE
    /\ destroyed = FALSE
    /\ lateTicks = 0
    /\ faults = 0
    /\ ticks = [i \in TickSlots |-> IdleTick]
    /\ timers = SetToBag({[sid |-> 1, fireAt |-> sessionDuration]})
    /\ emitted = <<[started |-> 1, ended |-> 0]>>
    /\ players = [u \in Users |-> IF u = "ann" THEN <<NewPlayer(1)>> ELSE <<>>]
    /\ users = [u \in Users |-> [wins |-> 0, losses |-> 0]]
    /\ calls = EmptyBag
    /\ queries = 0
    /\ joined = SetToBag({1})
    /\ reply = Reply("join", "joined", 1, NoPayload)

(* Guessing around the end of the session, refused guesses included. *)
GuessNext ==
    \/ \E t \in BagToSet(timers) : TimerFire(t)
    \/ \E u \in Users, g \in RequestIds, n \in PlayInputs : SubmitRequest(u, g, n)
    \/ \E u \in Users, g \in RequestIds, n \in PlayInputs : SubmitRefused(u, g, n)
    \/ \E c \in InFlight : SubmitUpdate(c)

GuessSpec == GuessInit /\ [][GuessNext]_vars

(* Guesses of a user who has joined, around the end of the session and
   after it, with result queries of either kind one after the other. *)
RecountNext ==
    \/ \E t \in BagToSet(timers) : TimerFire(t)
    \/ \E u \in Users, g \in RequestIds, n \in GuessInputs : SubmitRequest(u, g, n)
    \/ \E c \in InFlight : SubmitUpdate(c)
    \/ \E g \in RequestIds : ~ResultQueryInFlight /\ (HttpRequest(g) \/ WsRequest(g))
    \/ \E c \in InFlight : HttpSteps(c) \/ WsSteps(c)

RecountSpec == GuessInit /\ [][RecountNext]_vars

----------------------------------------------------------------------------
(* The two updatePlayerStats, each run alone on a given store *)

(* The selectedNumber of a stored row: none yet, or either end of [1, 10] *)
StoredSelections == {Unanswered, 1, 10}

(* The userIds of the rows of ps where { gameId, isWinner: flag } *)
FlaggedIn(ps, g, flag) ==
    {u \in DOMAIN ps : \E k \in DOMAIN ps[u] :
        ps[u][k].gameId = g /\ ps[u][k].isWinner = Some(flag)}

(* The userIds of the rows of ps where { gameId, selectedNumber: w } *)
SelectingIn(ps, g, w) ==
    {u \in DOMAIN ps : \E k \in DOMAIN ps[u] :
        ps[u][k].gameId = g /\ ps[u][k].selectedNumber = w}

NotSelectingAnsweredIn(ps, g, w) ==
    {u \in DOMAIN ps : \E k \in DOMAIN ps[u] :
        ps[u][k].gameId = g /\ ps[u][k].selectedNumber \notin {w, Unanswered}}

(* ... and where { gameId, selectedNumber: { not: w } } *)
NotSelectingIn(ps, g, w) ==
    {u \in DOMAIN ps : \E k \in DOMAIN ps[u] :
        ps[u][k].gameId = g /\ ps[u][k].selectedNumber # w}

(* GameService.updatePlayerStats(g, w) on the tables ps and us: the two
   player.updateMany, then getWinners and getLosers read the flags, then the
   transaction of the two user.updateMany *)
serviceUpdatePlayerStats(ps, us, g, w) ==
    LET marked == MarkLosers(MarkWinners(ps, g, w), g, w)
    IN  [players |-> marked,
         users |-> IncrementStats(us, FlaggedIn(marked, g, TRUE),
                                      FlaggedIn(marked, g, FALSE))]

(* GameGateway.updatePlayerStats(g, w) on the tables ps and us: winners and
   losers are read by selectedNumber, then the two player.updateMany, then
   the transaction of the two user.updateMany *)
gatewayUpdatePlayerStats(ps, us, g, w) ==
    LET winners == SelectingIn(ps, g, w)
        losers == NotSelectingIn(ps, g, w)
    IN  [players |-> MarkLosers(MarkWinners(ps, g, w), g, w),
         users |-> IncrementStats(us, winners, losers)]

(* The rows a user may have: at most two, each of the ended session 1 or of
   the active session 2, with any stored selection and isWinner not set *)
StoredRows ==
    {[gameId |-> g, selectedNumber |-> n, isWinner |-> Null] :
        g \in {1, 2}, n \in StoredSelections}

StoredRowLists ==
    {<<>>} \cup {<<r>> : r \in StoredRows} \cup {<<r, q>> : r \in StoredRows, q \in StoredRows}

(* The playerJoined events of the rows of ps: one per row *)
JoinedOf(ps) ==
    LET n(g) == Cardinality({id \in (DOMAIN ps) \X (1..2) :
                    id[2] <= Len(ps[id[1]]) /\ ps[id[1]][id[2]].gameId = g})
    IN  [g \in {h \in {1, 2} : n(h) > 0} |-> n(g)]

(* Any store in which session 1 has ended with a drawn number and is not
   settled, and session 2 is active at its end time. *)
StoreInit ==
    /\ now = 2 * sessionDuration + cooldownPeriod
    /\ \E k \in RandomDeciles :
         sessions = <<EndedSession(NewSession(0), drawNumber(k), sessionDuration),
                      NewSession(sessionDuration + cooldownPeriod)>>
    /\ isRunning = FALSE
    /\ destroyed = FALSE
    /\ lateTicks = 0
    /\ faults = 0
    /\ ticks = [i \in TickSlots |-> IdleTick]
    /\ timers = SetToBag({[sid |-> 2, fireAt |-> 2 * sessionDuration + cooldownPeriod]})
    /\ emitted = <<[started |-> 1, ended |-> 1], [started |-> 1, ended |-> 0]>>
    /\ players \in [Users -> StoredRowLists]
    /\ users = [u \in Users |-> [wins |-> 0, losses |-> 0]]
    /\ calls = EmptyBag
    /\ queries = 0
    /\ joined = JoinedOf(players)
    /\ reply = NoReply

(* GameService.updatePlayerStats(g, winningNumber), run alone *)
ServiceSettle(g) ==
    /\ queries < MaxQueries
    /\ sessionExists(g)
    /\ ~notEnded(sessions[g])
    /\ queries' = queries + 1
    /\ players' = serviceUpdatePlayerStats(players, users, g, winningNumberOf(sessions[g])).players
    /\ users' = serviceUpdatePlayerStats(players, users, g, winningNumberOf(sessions[g])).users
    /\ reply' = Reply("http", "settled", g, NoPayload)
    /\ UNCHANGED <<calls, joined>>
    /\ SchedulerUnchanged

(* GameGateway.updatePlayerStats(g, winningNumber), run alone *)
GatewaySettle(g) ==
    /\ queries < MaxQueries
    /\ sessionExists(g)
    /\ ~notEnded(sessions[g])
    /\ queries' = queries + 1
    /\ players' = gatewayUpdatePlayerStats(players, users, g, winningNumberOf(sessions[g])).players
    /\ users' = gatewayUpdatePlayerStats(players, users, g, winningNumberOf(sessions[g])).users
    /\ reply' = Reply("ws", "settled", g, NoPayload)
    /\ UNCHANGED <<calls, joined>>
    /\ SchedulerUnchanged

StoreNext ==
    \/ \E g \in RequestIds : ServiceSettle(g)
    \/ \E g \in RequestIds : GatewaySettle(g)

StoreSpec == StoreInit /\ [][StoreNext]_vars

----------------------------------------------------------------------------
(* The status queries *)

StatusOps == {"getActiveSession", "getCurrentSessionState", "getGameStatus", "getGameById"}

(* The milliseconds of Date.now() within the second `now`, at a read of the
   clock by a status query: on the second, or half a second later *)
SubSecond == {0, 500}

(* Math.floor(x / 1000) *)
floorSeconds(x) == x \div 1000

(* Math.ceil(x / 1000) *)
ceilSeconds(x) == -((-x) \div 1000)

(* Math.max(Math.floor((sessionEndTime - Date.now()) / 1000), 0) *)
timeLeftInSeconds(s, ms) ==
    Max(floorSeconds(sessionEndTime(s) * 1000 - (now * 1000 + ms)), 0)

nextSessionInRoundedDown(l, ms, cd) ==
    IF l # 0 /\ sessions[l].endedAt # Null
    THEN Max(floorSeconds(cd * 1000 - ((now * 1000 + ms) - sessions[l].endedAt[1] * 1000)), 0)
    ELSE cd

(* nextSessionIn for lastSession = l (0: none) and a cooldown of cd seconds:
   Math.max(Math.ceil((cd * 1000 - timeSinceLastSession) / 1000), 0), or cd *)
nextSessionIn(l, ms, cd) ==
    IF l # 0 /\ sessions[l].endedAt # Null
    THEN Max(ceilSeconds(cd * 1000 - ((now * 1000 + ms) - sessions[l].endedAt[1] * 1000)), 0)
    ELSE cd

(* getCurrentSessionState writes its cooldown as the literals 10 and 10000. *)
gatewayCooldown == 10

cooldownOf(op) == IF op = "getCurrentSessionState" THEN gatewayCooldown ELSE cooldownPeriod

(* { session, timeLeftInSeconds, nextSessionIn: null, totalPlayers? } *)
ActiveAnswer(op, g, tl, n) ==
    Reply(op, "active", g,
          [session |-> Some(g), timeLeftInSeconds |-> Some(tl),
           nextSessionIn |-> Null, totalPlayers |-> n])

(* { session, timeLeftInSeconds: null, nextSessionIn } *)
WaitingAnswer(op, g, s, next) ==
    Reply(op, "waiting", g,
          [session |-> s, timeLeftInSeconds |-> Null,
           nextSessionIn |-> Some(next), totalPlayers |-> Null])

StatusCall(op, pc, u, g, tl) ==
    [IdleCall EXCEPT !.op = op, !.pc = pc, !.user = u, !.sid = g, !.n = tl]

getActiveSessionClosing ==
    /\ Accepts
    /\ \E a \in FoundIn(ActiveFirst), ms \in SubSecond :
         IF a # 0 /\ timeLeftInSeconds(sessions[a], ms) > 0
         THEN /\ reply' = ActiveAnswer("getActiveSession", a,
                                       timeLeftInSeconds(sessions[a], ms), Null)
              /\ UNCHANGED <<calls, sessions>>
         ELSE /\ Begin(StatusCall("getActiveSession", "findLast", "", 0, 0))
              /\ sessions' = IF a = 0 THEN sessions
                             ELSE [sessions EXCEPT ![a] = EndedSession(@, 1, now)]
              /\ UNCHANGED reply
    /\ UNCHANGED <<players, users, queries, joined>>
    /\ UNCHANGED <<now, isRunning, destroyed, lateTicks, faults, ticks, timers, emitted>>

(* GameService.getActiveSession, up to its first return: the active session
   is answered only if (timeLeftInSeconds > 0); otherwise the query goes on
   to the waiting period. *)
getActiveSession ==
    /\ Accepts
    /\ \E a \in FoundIn(ActiveFirst), ms \in SubSecond :
         IF a # 0 /\ timeLeftInSeconds(sessions[a], ms) > 0
         THEN /\ reply' = ActiveAnswer("getActiveSession", a,
                                       timeLeftInSeconds(sessions[a], ms), Null)
              /\ UNCHANGED calls
         ELSE /\ Begin(StatusCall("getActiveSession", "findLast", "", 0, 0))
              /\ UNCHANGED reply
    /\ UNCHANGED <<players, users, queries, joined>>
    /\ SchedulerUnchanged

(* GameGateway.getCurrentSessionState, up to its first return: an active
   session is answered whatever its timeLeftInSeconds. *)
getCurrentSessionState ==
    /\ Accepts
    /\ \E a \in FoundIn(ActiveFirst), ms \in SubSecond :
         IF a # 0
         THEN /\ reply' = ActiveAnswer("getCurrentSessionState", a,
                                       timeLeftInSeconds(sessions[a], ms), Null)
              /\ UNCHANGED calls
         ELSE /\ Begin(StatusCall("getCurrentSessionState", "findLast", "", 0, 0))
              /\ UNCHANGED reply
    /\ UNCHANGED <<players, users, queries, joined>>
    /\ SchedulerUnchanged

(* GameService.getGameStatus(g), up to the count of the players: a session
   that does not exist is NotFoundException. *)
getGameStatus(g) ==
    /\ Accepts
    /\ IF ~sessionExists(g)
       THEN /\ reply' = Reply("getGameStatus", "notFound", g, NoPayload)
            /\ UNCHANGED calls
       ELSE /\ \E ms \in SubSecond :
                 IF sessions[g].isActive /\ timeLeftInSeconds(sessions[g], ms) > 0
                 THEN Begin(StatusCall("getGameStatus", "count", "", g,
                                       timeLeftInSeconds(sessions[g], ms)))
                 ELSE Begin(StatusCall("getGameStatus", "findLast", "", g, 0))
            /\ UNCHANGED reply
    /\ UNCHANGED <<players, users, queries, joined>>
    /\ SchedulerUnchanged

(* GameService.getGameById(g, u), its first findFirst: a session that is not
   active or does not exist is BadRequestException. *)
getGameById(u, g) ==
    /\ Accepts
    /\ IF ~sessionActive(g)
       THEN /\ reply' = Reply("getGameById", "notActive", g, NoPayload)
            /\ UNCHANGED calls
       ELSE /\ Begin(StatusCall("getGameById", "findPlayer", u, g, 0))
            /\ UNCHANGED reply
    /\ UNCHANGED <<players, users, queries, joined>>
    /\ SchedulerUnchanged

(* getGameById: existingPlayer; a user who has played is BadRequestException. *)
GameByIdFindPlayer(c) ==
    /\ At(c, "getGameById", "findPlayer")
    /\ IF PlayersOf(c.user, c.sid) = {}
       THEN Goto(c, "findUnique") /\ UNCHANGED reply
       ELSE \E id \in PlayersOf(c.user, c.sid) :
              IF Row(id).selectedNumber # Unanswered
              THEN /\ reply' = Reply("getGameById", "alreadyPlayed", c.sid, NoPayload)
                   /\ Finish(c)
              ELSE Goto(c, "findUnique") /\ UNCHANGED reply
    /\ UNCHANGED <<players, users, queries, joined>>
    /\ SchedulerUnchanged

(* getGameById: gameSession = findUnique({ where: { id } }) and the test of
   its time left *)
GameByIdFindUnique(c) ==
    /\ At(c, "getGameById", "findUnique")
    /\ \E ms \in SubSecond :
         IF sessions[c.sid].isActive /\ timeLeftInSeconds(sessions[c.sid], ms) > 0
         THEN Continue(c, [c EXCEPT !.pc = "count",
                                    !.n = timeLeftInSeconds(sessions[c.sid], ms)])
         ELSE Goto(c, "findLast")
    /\ UNCHANGED <<players, users, queries, joined, reply>>
    /\ SchedulerUnchanged

(* getGameStatus and getGameById: totalPlayers = player.count(...), and the
   active session is answered. *)
StatusCount(c) ==
    /\ c.op \in StatusOps
    /\ c.pc = "count"
    /\ reply' = ActiveAnswer(c.op, c.sid, c.n, Some(Cardinality(PlayersIn(c.sid))))
    /\ Finish(c)
    /\ UNCHANGED <<players, users, queries, joined>>
    /\ SchedulerUnchanged

(* The waiting period of the four queries: lastSession, nextSessionIn, and
   the answer (getGameStatus answers with the session it was asked about,
   the others with session: null). *)
StatusFindLast(c) ==
    /\ c.op \in StatusOps
    /\ c.pc = "findLast"
    /\ \E l \in FoundIn(LastEnded), ms \in SubSecond :
         reply' = WaitingAnswer(c.op, c.sid,
                                IF c.op = "getGameStatus" THEN Some(c.sid) ELSE Null,
                                nextSessionIn(l, ms, cooldownOf(c.op)))
    /\ Finish(c)
    /\ UNCHANGED <<players, users, queries, joined>>
    /\ SchedulerUnchanged

(* The scheduler, and the two queries of the current session, one query at
   a time. *)
StatusNext ==
    \/ LiveNext
    \/ calls = EmptyBag /\ getActiveSession
    \/ calls = EmptyBag /\ getCurrentSessionState
    \/ \E c \in InFlight : StatusFindLast(c)

StatusSpec == Init /\ [][StatusNext]_vars

(* The scheduler after one user has joined, and the four status queries,
   one query at a time. *)
InspectNext ==
    \/ LiveNext
    \/ calls = EmptyBag /\ getActiveSession
    \/ calls = EmptyBag /\ getCurrentSessionState
    \/ \E g \in RequestIds : calls = EmptyBag /\ getGameStatus(g)
    \/ \E u \in Users, g \in RequestIds : calls = EmptyBag /\ getGameById(u, g)
    \/ \E c \in InFlight : GameByIdFindPlayer(c)
    \/ \E c \in InFlight : GameByIdFindUnique(c)
    \/ \E c \in InFlight : StatusCount(c)
    \/ \E c \in InFlight : StatusFindLast(c)

InspectSpec == GuessInit /\ [][InspectNext]_vars

(* The scheduler left to itself after one user has joined: no client sends a
   request. *)
UnattendedSpec ==
    /\ GuessInit
    /\ [][LiveNext]_vars
    /\ \A i \in TickSlots : WF_vars(Tick(i))
    /\ WF_vars(Advance)
    /\ WF_vars(\E t \in BagToSet(timers) : TimerFire(t))

----------------------------------------------------------------------------
(* Properties of the scheduler *)

(* C1: in every reachable state at most one GameSession has isActive = true. *)
C1_AtMostOneActive == Cardinality(ActiveIds) <= 1

(* C2: once a session's winningNumber is set, no later step writes a
   different winningNumber to that session. *)
C2_WinningNumberNeverChanges ==
    [][\A i \in SessionIds :
          sessions[i].winningNumber # Null
              => sessions'[i].winningNumber = sessions[i].winningNumber]_vars

(* C5: an open-session attempt creates a GameSession only when no session is
   active; an attempt that runs while another one has opened a session
   returns that session and creates none. *)
C5_OpenCreatesOnlyWhenNoneActive ==
    [][Len(sessions') > Len(sessions) => ActiveIds = {}]_vars

(* C6: a session is ended at most once: an end attempt on a session that is
   no longer active leaves isActive and endedAt unchanged and sends no
   further 'session ended' event. *)
C6_EndedAtMostOnce ==
    [][\A i \in SessionIds :
          ~sessions[i].isActive
              => /\ sessions'[i].isActive = sessions[i].isActive
                 /\ sessions'[i].endedAt = sessions[i].endedAt
                 /\ emitted'[i].ended = emitted[i].ended]_vars

(* C7: for every GameSession, winningNumber is set if and only if isActive is
   false and endedAt is set. *)
C7_WinningNumberIffEnded ==
    \A i \in SessionIds :
        sessions[i].winningNumber # Null
            <=> (~sessions[i].isActive /\ sessions[i].endedAt # Null)

C7_Witness ==
    \E i, j \in SessionIds :
        /\ ~sessions[i].isActive /\ sessions[i].winningNumber # Null
        /\ sessions[j].isActive /\ sessions[j].winningNumber = Null

(* C8: a session is created only when no session is active and every ended
   session ended at least cooldownPeriod before the new session's startedAt. *)
C8_CooldownRespected ==
    [][Len(sessions') > Len(sessions)
          => /\ ActiveIds = {}
             /\ \A i \in SessionIds :
                   sessions[i].endedAt # Null
                       => sessions'[Len(sessions')].startedAt
                              >= sessions[i].endedAt[1] + cooldownPeriod]_vars

(* C9: a session that is no longer active has endedAt >= startedAt + duration,
   whichever path ended it. *)
C9_EndedOnlyAfterDeadline ==
    \A i \in SessionIds :
        ~sessions[i].isActive
            => /\ sessions[i].endedAt # Null
               /\ sessions[i].endedAt[1] >= sessions[i].startedAt + sessions[i].duration

C9_Witness ==
    \E i \in SessionIds :
        /\ ~sessions[i].isActive
        /\ sessions[i].endedAt = Some(sessions[i].startedAt + sessions[i].duration)
        /\ emitted[i].ended >= 1

CooldownElapsed ==
    /\ ActiveIds = {}
    /\ InactiveIds # {}
    /\ \A i \in InactiveIds :
          sessions[i].endedAt # Null /\ now - sessions[i].endedAt[1] >= cooldownPeriod

(* C10: with ticks firing and the store answering, once a session has ended,
   the cooldown has elapsed and no deferred end of a session is still
   pending, a tick eventually opens a new active session (as long as the
   model may still create one). *)
C10_NewSessionAfterCooldown ==
    (CooldownElapsed /\ timers = EmptyBag /\ Len(sessions) < MaxSessions)
        ~> (ActiveIds # {})

C10_Witness ==
    /\ Len(sessions) = 2
    /\ sessions[2].isActive
    /\ ~sessions[1].isActive
    /\ sessions[2].startedAt >= sessions[1].endedAt[1] + cooldownPeriod

(* The executions of manageGameSession that have passed the isRunning guard
   and not yet returned *)
TicksInProgress == {i \in TickSlots : ticks[i].pc # "idle"}

(* C11: at most one execution of manageGameSession is in progress at any
   time, whatever the sequence of ticks and lifecycle hooks. *)
C11_SingleFlight == Cardinality(TicksInProgress) <= 1

(* C26: the steps of a tick that finds an active session before its
   deadline, or no active session and the cooldown not elapsed (the guard,
   the two reads and the return), change no session, player or user record,
   schedule nothing and send no notification. *)
C26_WaitingTickWritesNothing ==
    [][\A i \in TickSlots :
          (ticks[i].pc \in {"idle", "findActive", "findLast"} /\ ticks'[i] # ticks[i])
              => UNCHANGED <<sessions, players, users, emitted, joined, timers>>]_vars

C26_Witness ==
    \E i \in TickSlots, l \in InactiveIds :
        /\ ticks[i].pc = "findLast"
        /\ ActiveIds = {}
        /\ sessions[l].endedAt[1] < now
        /\ now < sessions[l].endedAt[1] + cooldownPeriod

(* C27: each session has had exactly one 'session started' event, and one
   'session ended' event if it has ended, none otherwise. *)
C27_OneNotificationPerTransition ==
    \A i \in SessionIds :
        /\ emitted[i].started = 1
        /\ emitted[i].ended = IF sessions[i].isActive THEN 0 ELSE 1

(* C28: every winningNumber stored on a session is in [1, 10]. *)
C28_WinningNumberInRange ==
    \A i \in SessionIds :
        sessions[i].winningNumber # Null => sessions[i].winningNumber[1] \in 1..10

C28_Witness ==
    \E i, j \in SessionIds :
        sessions[i].winningNumber = Some(1) /\ sessions[j].winningNumber = Some(10)

Overdue(g) ==
    /\ g \in SessionIds
    /\ sessions[g].isActive
    /\ now >= sessions[g].startedAt + sessions[g].duration

HasEnded(g) ==
    g \in SessionIds /\ ~sessions[g].isActive

(* C25: when a store statement of a tick fails, the tick returns with the
   single-flight flag released and nothing written; whenever no tick is in
   progress the flag is down; and an active session past its end time is
   eventually ended. *)
C25_TickFailureIsContained ==
    /\ [](TicksInProgress = {} => ~isRunning)
    /\ [][faults' > faults
            => /\ ~isRunning'
               /\ UNCHANGED <<sessions, emitted, timers, players, users>>]_vars
    /\ \A g \in 1..MaxSessions : Overdue(g) ~> HasEnded(g)

C25_Witness ==
    /\ faults = MaxFaults
    /\ TicksInProgress = {}
    /\ \E g \in SessionIds : \E t \in BagToSet(timers) :
          t.sid = g /\ ~sessions[g].isActive

----------------------------------------------------------------------------
(* Properties of the settlement *)

(* C3: result queries for an ended session, one after the other and of
   either kind, leave the wins and losses of a user who joined it once as one
   query leaves them: one win or one loss for the session at most. *)
C3_RepeatedSettlementCountsOnce ==
    \A u \in Users : Len(players[u]) <= 1 => users[u].wins + users[u].losses <= 1

(* C4: when two result queries for the same ended session interleave, the
   wins or losses of a user who joined it once is incremented once in total
   for that session: no win or loss is counted twice. *)
C4_ConcurrentSettlementCountsOnce ==
    \A u \in Users : Len(players[u]) <= 1 => users[u].wins <= 1 /\ users[u].losses <= 1

(* A result query on a session that exists and has no winningNumber is
   answered in this step. *)
UnendedAnswered ==
    /\ reply' # reply
    /\ reply'.op \in {"http", "ws"}
    /\ reply'.sid \in SessionIds
    /\ sessions[reply'.sid].winningNumber = Null

(* C12 as stated: a result query on a session that has not ended fails with
   the 'not finished' error and writes nothing. *)
C12_UnendedSettlementFails ==
    [][UnendedAnswered
          => reply'.status = "notFinished" /\ UNCHANGED <<players, users>>]_vars

(* C12: a result query on a session that has not ended writes nothing and
   settles nothing; the service answers it with the 'not finished' error,
   the gateway with no event at all. *)
C12_UnendedSettlementWritesNothing ==
    [][UnendedAnswered
          => /\ reply'.status = IF reply'.op = "http" THEN "notFinished" ELSE "noResult"
             /\ UNCHANGED <<players, users, calls, queries>>]_vars

C12_Witness ==
    /\ reply = Reply("ws", "noResult", 2, NoPayload)
    /\ sessions[2].isActive
    /\ \E id \in PlayersIn(2) : Row(id).selectedNumber = 1 /\ Row(id).isWinner = Null
    /\ \A u \in Users : users[u] = [wins |-> 0, losses |-> 0]

(* The first settlement has completed, for this session and this number. *)
Settled == reply.status = "result"

SettledNumber == sessions[reply.sid].winningNumber[1]

(* C13: the first settlement of an ended session with winning number w
   leaves isWinner = true on exactly its rows with selectedNumber = w and
   isWinner = false on its other rows, one win more for each user of the
   former and one loss more for each user of the latter, and nothing else
   changed: the rows of other sessions and the other users are as before. *)
C13_FirstSettlement ==
    Settled =>
        /\ \A id \in PlayerIds :
              Row(id).isWinner =
                  IF Row(id).gameId = reply.sid
                  THEN Some(Row(id).selectedNumber = SettledNumber)
                  ELSE Null
        /\ \A u \in Users :
              /\ users[u].wins =
                    IF \E id \in PlayersOf(u, reply.sid) : Row(id).selectedNumber = SettledNumber
                    THEN 1 ELSE 0
              /\ users[u].losses =
                    IF \E id \in PlayersOf(u, reply.sid) : Row(id).selectedNumber # SettledNumber
                    THEN 1 ELSE 0

C13_Witness ==
    /\ Settled
    /\ reply.sid = 2
    /\ users = [u \in Users |-> IF u = "ann" THEN [wins |-> 1, losses |-> 0]
                                 ELSE [wins |-> 0, losses |-> 1]]
    /\ \E id \in PlayersOf("bob", 1) : Row(id).isWinner = Null

(* C14: a user who joined a session and never guessed has isWinner = false
   and one loss once the session is settled, whatever the winning number. *)
C14_UnansweredLoses ==
    Settled =>
        \A id \in PlayersIn(reply.sid) :
            Row(id).selectedNumber = Unanswered
                => Row(id).isWinner = Some(FALSE) /\ users[id[1]].losses = 1

C14_Witness ==
    /\ Settled
    /\ \E id \in PlayersIn(reply.sid) :
          /\ Row(id).selectedNumber = Unanswered
          /\ Row(id).isWinner = Some(FALSE)
          /\ users[id[1]] = [wins |-> 0, losses |-> 1]

(* C15: the result of an ended session has totalPlayers = the number of its
   player rows, totalWins = the number of those with selectedNumber =
   winningNumber, and winners = their users, each of whom has one win. *)
C15_ResultSnapshot ==
    Settled =>
        /\ reply.payload.totalPlayers = Cardinality(PlayersIn(reply.sid))
        /\ reply.payload.totalWins =
              Cardinality({id \in PlayersIn(reply.sid) : Row(id).selectedNumber = SettledNumber})
        /\ reply.payload.winners =
              {u \in Users : \E id \in PlayersOf(u, reply.sid) :
                                Row(id).selectedNumber = SettledNumber}
        /\ \A u \in reply.payload.winners : users[u].wins = 1

C15_Witness ==
    /\ reply.status = "result"
    /\ reply.sid = 2
    /\ reply.payload = [totalPlayers |-> 1, totalWins |-> 1, winners |-> {"ann"}]
    /\ users["ann"] = [wins |-> 1, losses |-> 0]

(* C16: isWinner is set only on rows of a session that has ended, and once a
   result query has settled a session none of its rows has isWinner unset. *)
C16_IsWinnerIffSettled ==
    \A id \in PlayerIds :
        /\ Row(id).isWinner # Null => ~sessions[Row(id).gameId].isActive
        /\ (reply.status = "result" /\ reply.sid = Row(id).gameId)
              => Row(id).isWinner # Null

----------------------------------------------------------------------------
(* Properties of joining and guessing *)

(* C17: there is at most one player row per session and user. *)
C17_OnePlayerPerSessionAndUser ==
    \A u \in Users, g \in SessionIds : Cardinality(PlayersOf(u, g)) <= 1

(* C18: a selectedNumber that is no longer -1 is never written again. *)
C18_GuessWrittenOnce ==
    [][\A id \in PlayerIds :
          Row(id).selectedNumber # Unanswered
              => players'[id[1]][id[2]].selectedNumber = Row(id).selectedNumber]_vars

(* C19: a submitNumber with a number outside [1, 10] is refused, goes no
   further and changes nothing: every stored selectedNumber is -1 or in
   [1, 10], and so is the number of every submission about to be written. *)
C19_InvalidNumberRejected ==
    [][/\ \A u \in Users : \A k \in DOMAIN players'[u] :
             players'[u][k].selectedNumber \in {-1} \cup (1..10)
       /\ \A c \in BagToSet(calls') : c.op = "submit" => c.n \in 1..10
       /\ (reply' # reply /\ reply'.status = "invalidNumber")
             => UNCHANGED <<players, users, sessions, calls, joined, timers, emitted>>]_vars

C19_Witness ==
    /\ reply = Reply("submit", "invalidNumber", 1, NoPayload)
    /\ \E id \in PlayersIn(1) : Row(id).selectedNumber = 10

(* The join requests for session g that have passed the checks of
   joinGameSession and not yet created their row *)
JoinsInFlight(cs, g) ==
    BagCardinality([c \in {d \in BagToSet(cs) : d.op = "join" /\ d.sid = g} |-> cs[c]])

RowsIn(ps, g) ==
    Cardinality({id \in Users \X (1..(MaxCalls + 1)) :
                    id[2] <= Len(ps[id[1]]) /\ ps[id[1]][id[2]].gameId = g})

(* C20: a joinGameSession for a session that does not exist or is not active
   is refused: it goes no further, and a player row or a playerJoined event
   of such a session comes only from a join that passed the checks while
   the session was active. *)
C20_JoinInactiveRejected ==
    [][\A g \in RequestIds :
          (g > Len(sessions) \/ ~sessions[g].isActive)
              => /\ JoinsInFlight(calls', g) <= JoinsInFlight(calls, g)
                 /\ (RowsIn(players', g) > RowsIn(players, g)
                        \/ CopiesIn(g, joined') > CopiesIn(g, joined))
                       => JoinsInFlight(calls', g) < JoinsInFlight(calls, g)
                 /\ (reply' # reply /\ reply'.op = "join" /\ reply'.sid = g
                        /\ reply'.status = "notActive")
                       => UNCHANGED <<players, joined, calls>>]_vars

C20_Witness ==
    /\ reply = Reply("join", "notActive", 1, NoPayload)
    /\ ~sessions[1].isActive
    /\ PlayersIn(1) # {}


(* The submissions for session g that have passed the checks of submitNumber
   and not yet written their number *)
SubmitsInFlight(cs, g) ==
    BagCardinality([c \in {d \in BagToSet(cs) : d.op = "submit" /\ d.sid = g} |-> cs[c]])

(* C30: a submitNumber for a session that has ended is refused: no
   submission passes the checks once the session is not active, and a
   selectedNumber of an ended session that is still -1 changes only by a
   submission that passed the checks before. *)
C30_GuessOnlyWhileActive ==
    [][\A g \in SessionIds :
          ~sessions[g].isActive
              => /\ SubmitsInFlight(calls', g) <= SubmitsInFlight(calls, g)
                 /\ \A id \in PlayersIn(g) :
                       players'[id[1]][id[2]].selectedNumber # Row(id).selectedNumber
                           => SubmitsInFlight(calls', g) < SubmitsInFlight(calls, g)]_vars

(* C23: after the scheduler has ended a session, the rows of the session
   eventually have isWinner set and their users' wins or losses counted,
   without any result query. *)
C23_SchedulerSettles ==
    HasEnded(1) ~>
        \A id \in PlayersIn(1) :
            /\ Row(id).isWinner # Null
            /\ users[id[1]].wins + users[id[1]].losses > 0

(* C24: when a result query whose statistics transaction failed has been
   sent again and answered, each user with a row in the session has the one
   win or the one loss of a single settlement. *)
C24_RetryCountsOnce ==
    (Settled /\ faults > 0 /\ calls = EmptyBag) =>
        \A u \in Users :
            /\ users[u].wins =
                  IF \E id \in PlayersOf(u, reply.sid) : Row(id).selectedNumber = SettledNumber
                  THEN 1 ELSE 0
            /\ users[u].losses =
                  IF \E id \in PlayersOf(u, reply.sid) : Row(id).selectedNumber # SettledNumber
                  THEN 1 ELSE 0

----------------------------------------------------------------------------
(* Properties of the status queries *)

(* A status query answers from its waiting period in this step. *)
WaitingAnswered ==
    \E c \in BagToSet(calls) :
        c.op \in StatusOps /\ c.pc = "findLast" /\ calls' = calls (-) SetToBag({c})

(* A status query reads the current session in this step. *)
CurrentSessionRead(op) ==
    \/ reply' # reply /\ reply'.op = op /\ reply'.status = "active"
    \/ \E c \in BagToSet(calls') : c.op = op /\ c.pc = "findLast" /\ calls = EmptyBag

(* C21: a status query that answers while no session is active answers
   session = null and nextSessionIn = max(cooldownPeriod - (now - endedAt
   of the last ended session), 0) in whole seconds, cooldownPeriod when no
   session has ever existed; the value is within [0, cooldownPeriod]. *)
C21_NextSessionIn ==
    [][(WaitingAnswered /\ ActiveIds = {})
          => /\ reply'.status = "waiting"
             /\ reply'.payload.session = Null
             /\ reply'.payload.nextSessionIn # Null
             /\ reply'.payload.nextSessionIn[1] \in 0..cooldownPeriod
             /\ sessions = <<>> => reply'.payload.nextSessionIn[1] = cooldownPeriod
             /\ \A l \in LastEnded :
                   reply'.payload.nextSessionIn[1] =
                       Max(cooldownPeriod - (now - sessions[l].endedAt[1]), 0)]_vars

C21_Witness ==
    /\ reply.status = "waiting"
    /\ reply.payload.session = Null
    /\ ActiveIds = {}
    /\ \E l \in LastEnded :
          /\ now - sessions[l].endedAt[1] = ClockStep
          /\ reply.payload.nextSessionIn = Some(cooldownPeriod - ClockStep)

(* C22: a status query that finds an active session answers with that
   session, with the whole seconds left to its end time, and with 0 when
   the end time has passed. *)
C22_ActiveSessionAnswered ==
    [][\A op \in {"getActiveSession", "getCurrentSessionState"} :
          (CurrentSessionRead(op) /\ ActiveIds # {})
              => /\ reply'.op = op /\ reply'.status = "active"
                 /\ reply'.sid \in ActiveIds
                 /\ reply'.payload.timeLeftInSeconds[1] \in
                       {Max(sessionEndTime(sessions[reply'.sid]) - now - d, 0) : d \in {0, 1}}]_vars

(* C29: the steps of the status queries leave the GameSession, Player and
   User tables as they are (and send no sessionUpdate, set no timer). *)
C29_StatusQueriesArePure ==
    [][(calls' # calls \/ (reply' # reply /\ reply'.op \in StatusOps))
          => UNCHANGED <<sessions, players, users, emitted, timers, joined>>]_vars

C29_Witness ==
    /\ reply.op = "getGameStatus"
    /\ reply.status = "active"
    /\ reply.sid = 2
    /\ \E id \in PlayersIn(1) : Row(id).isWinner = Null
    /\ ~sessions[1].isActive

(* C31: once a result query has settled a session and no request is in
   flight, each row of the session has isWinner = (selectedNumber =
   winningNumber), so that the totalWins and winners of a result, which are
   counted from selectedNumber, are the rows and users flagged as winners. *)
C31_FlagsMatchSelections ==
    \A g \in SessionIds :
        (queries > 0 /\ calls = EmptyBag /\ ~notEnded(sessions[g]))
            => /\ \A id \in PlayersIn(g) :
                     Row(id).isWinner =
                         Some(Row(id).selectedNumber = winningNumberOf(sessions[g]))
               /\ UsersSelecting(g, winningNumberOf(sessions[g])) = UsersFlagged(g, TRUE)

(* C32: on a store where the ended session g has no isWinner set, the
   service's and the gateway's updatePlayerStats give the same Player and
   User tables, and a step of either gives those tables. *)
C32_SettlementsAgree ==
    [][\A g \in SessionIds :
          (~notEnded(sessions[g]) /\ ~hasUpdatedStats(g))
              => /\ serviceUpdatePlayerStats(players, users, g, winningNumberOf(sessions[g]))
                      = gatewayUpdatePlayerStats(players, users, g, winningNumberOf(sessions[g]))
                 /\ (reply' # reply /\ reply'.status = "settled" /\ reply'.sid = g)
                       => [players |-> players', users |-> users']
                            = gatewayUpdatePlayerStats(players, users, g,
                                                       winningNumberOf(sessions[g]))]_vars

C32_Witness ==
    /\ reply = Reply("http", "settled", 1, NoPayload)
    /\ queries = 1
    /\ Cardinality(PlayersOf("ann", 1)) = 2
    /\ \E id \in PlayersOf("ann", 1) : Row(id).isWinner = Some(TRUE)
    /\ \E id \in PlayersOf("ann", 1) :
          Row(id).selectedNumber = Unanswered /\ Row(id).isWinner = Some(FALSE)
    /\ users["ann"] = [wins |-> 1, losses |-> 1]
    /\ \E id \in PlayersOf("bob", 2) : Row(id).isWinner = Null

----------------------------------------------------------------------------
(* Properties of the notifications as one sequence *)

RECURSIVE StartedUpTo(_)
(* How many 'session started' events were sent for the sessions 1..n *)
StartedUpTo(n) == IF n = 0 THEN 0 ELSE emitted[n].started + StartedUpTo(n - 1)

RECURSIVE EndedUpTo(_)
(* How many 'session ended' events were sent for the sessions 1..n *)
EndedUpTo(n) == IF n = 0 THEN 0 ELSE emitted[n].ended + EndedUpTo(n - 1)

(* C33: the sessionUpdate events alternate, 'started' first: a session's
   'ended' comes after its 'started', and at every moment the events sent so
   far hold as many 'ended' as 'started', or one 'started' more. *)
C33_NotificationsAlternate ==
    /\ \A i \in SessionIds : emitted[i].ended > 0 => emitted[i].started > 0
    /\ StartedUpTo(Len(emitted)) - EndedUpTo(Len(emitted)) \in {0, 1}

====
